---- MODULE Spec2Model ----
(***************************************************************************)
(* Model of the two-stage pipeline of multi-frame-streaming:               *)
(*   - src/read-file.py: the stream partitioner, which rewrites data.csv   *)
(*     as size-capped partitions data_clean_part_<n>.csv;                  *)
(*   - src/script/import-clean-data.py: the batch loader, which reads the  *)
(*     partitions and inserts validated rows into table videos in batches. *)
(* Text is modelled as a sequence of one-character strings, so that        *)
(* str.strip() is computed and not assumed.                                *)
(***************************************************************************)
EXTENDS Integers, Sequences, FiniteSets, TLC

VARIABLES
    \* ---- src/read-file.py ----
    source,          \* the lines csv.reader yields from INPUT_FILE, in order
    ROWS_PER_FILE,   \* the configured cap (1_000_000 in the source)
    file_index,      \* index of the current partition
    row_in_file,     \* data rows written to the current partition
    processed,       \* lines read so far (also the reader's position)
    fs,              \* the file system: partition index -> rows of the file
    handles,         \* indices of the partition files that are open
    created,         \* the indices open_new_file was called with, in order
    assign,          \* per line read: the partition it went to, 0 if dropped
    pc,              \* "start", "loop", "done", "failed"
    fin,             \* the source stream: "unopened", "open", "closed"
    run,             \* 1 for the first run of the script, 2 for the re-run
    first,           \* what the first run left behind, once it is re-run
    \* ---- src/script/import-clean-data.py ----
    lpc,             \* "idle", "reset", "tables", "file", "rows", "done", "aborted"
    file_num,        \* position of main's loop over CSV_FILES
    row_num,         \* rows of the current partition read so far
    row,             \* the row the loop is at
    imported,
    skipped,
    batch,           \* pending records, each tagged with the row it came from
    videos,          \* rows committed to table videos
    submitted,       \* the executemany calls on the current cursor: the rows
                     \* of each and the sink's answer
    total_imported,
    total_skipped,
    failures,        \* the files that were missing or could not be opened, or
                     \* for which the connection failed
    started,         \* the files import_csv_file was called for
    returned,        \* per file: the (imported, skipped) import_csv_file returned
    rows_read,       \* rows read from all partition files so far
    \* ---- the field derivation functions of both loader scripts ----
    text,            \* the text a derivation is applied to
    fpc,             \* "off", "input", "derived"
    derived,         \* what each function gave for text
    \* ---- the per-row loader, src/script/import_csv_postgres.py ----
    pg_pc,             \* "off", "connect", "tables", "file", "rows", "done", "aborted"
    pg_file,           \* 1-based position in csv_files of the file main is at
    pg_row_num,        \* row_num of the row loop
    pg_row,            \* the row the loop read last
    pg_imported,       \* import_csv_file's imported
    pg_skipped,        \* import_csv_file's skipped
    pg_staging,        \* rows of table video_staging
    pg_videos,         \* rows of table videos
    pg_uncommitted,    \* how many trailing rows of each table are not committed
    pg_tx,             \* "ok", or "aborted" after a statement failed
    pg_total_imported, \* main's total_imported
    pg_total_skipped,  \* main's total_skipped
    pg_rows_read       \* rows read from all files so far

pvars == <<source, ROWS_PER_FILE, file_index, row_in_file, processed, fs,
           handles, created, assign, pc, fin, run, first>>
lvars == <<lpc, file_num, row_num, row, imported, skipped, batch, videos,
           submitted, total_imported, total_skipped, failures, started, returned,
           rows_read>>
fvars == <<text, fpc, derived>>
gvars == <<pg_pc, pg_file, pg_row_num, pg_row, pg_imported, pg_skipped,
           pg_staging, pg_videos, pg_uncommitted, pg_tx, pg_total_imported,
           pg_total_skipped, pg_rows_read>>
vars == <<pvars, lvars, fvars, gvars>>

\* ---- bounds ----
MaxLines == 5
MaxCap == 2
MaxRows == 4
batch_size == 2
MaxText == 3
MaxPgRows == 3
commit_every == 2

(***************************************************************************)
(* Text                                                                    *)
(***************************************************************************)
Whitespace ==
    {" ", "\t", "\n", "\r"}

RECURSIVE lstrip(_)
lstrip(s) ==
    IF s # <<>> /\ s[1] \in Whitespace THEN lstrip(Tail(s)) ELSE s

RECURSIVE rstrip(_)
rstrip(s) ==
    IF s # <<>> /\ s[Len(s)] \in Whitespace
    THEN rstrip(SubSeq(s, 1, Len(s) - 1))
    ELSE s

\* str.strip(): leading and trailing whitespace removed
strip(s) ==
    rstrip(lstrip(s))

(***************************************************************************)
(* src/read-file.py                                                        *)
(***************************************************************************)
COLUMNS ==
    << [idx |-> 0,  name |-> "video_url"],
       [idx |-> 1,  name |-> "title"],
       [idx |-> 2,  name |-> "duration"],
       [idx |-> 3,  name |-> "thumbnail_url"],
       [idx |-> 4,  name |-> "embed_code"],
       [idx |-> 5,  name |-> "tags"],
       [idx |-> 6,  name |-> "actors"],
       [idx |-> 7,  name |-> "views"],
       [idx |-> 8,  name |-> "category"],
       [idx |-> 9,  name |-> "quality"],
       [idx |-> 10, name |-> "uploader"],
       [idx |-> 11, name |-> "empty_field"],
       [idx |-> 12, name |-> "publish_date"],
       [idx |-> 13, name |-> "thumbnail_url_2"],
       [idx |-> 14, name |-> "status"] >>

max_col_index ==
    CHOOSE m \in {COLUMNS[k].idx : k \in DOMAIN COLUMNS} :
        \A k \in DOMAIN COLUMNS : COLUMNS[k].idx <= m

\* The lines the source is drawn from: exactly wide enough (with blanks to
\* trim), one field too many, one field too few.
LineExact ==
    [i \in 1..15 |-> IF i = 2 THEN <<" ", "a", " ">>
                     ELSE IF i = 8 THEN <<"\t", "7">>
                     ELSE <<"x">>]

LineWide ==
    [i \in 1..16 |-> IF i = 1 THEN <<"b", " ", "c", "\n">>
                     ELSE IF i = 16 THEN <<"z">>
                     ELSE <<>>]

LineShort ==
    [i \in 1..14 |-> <<" ", "s">>]

LineSet ==
    {LineExact, LineWide, LineShort}

\* line 55: the arity check
WellFormedMutant(r) ==
    Len(r) > max_col_index + 1

WellFormed(r) ==
    Len(r) >= max_col_index + 1

\* line 56: cleaned = [row[idx].strip() for idx, _ in COLUMNS]
CleanedMutant(r) ==
    [k \in DOMAIN COLUMNS |-> r[COLUMNS[k].idx + 1]]

Cleaned(r) ==
    [k \in DOMAIN COLUMNS |-> strip(r[COLUMNS[k].idx + 1])]

\* line 49: the rotation test
NeedRotateMutant(rif, cap) ==
    rif > cap

NeedRotate(rif, cap) ==
    rif >= cap

\* line 51: file_index += 1
NextIndexMutant(index) ==
    index

NextIndex(index) ==
    index + 1

HeaderRow ==
    [kind |-> "header", cells |-> [k \in DOMAIN COLUMNS |-> COLUMNS[k].name]]

DataRow(cells) ==
    [kind |-> "data", cells |-> cells]

\* lines 34-38: open(..., "w") truncates or creates the file, then the header
\* row is written
open_new_file_Mutant(files, index) ==
    IF index \in DOMAIN files
    THEN [files EXCEPT ![index] = Append(@, HeaderRow)]
    ELSE (index :> <<HeaderRow>>) @@ files

open_new_file(files, index) ==
    (index :> <<HeaderRow>>) @@ files

\* lines 50 and 71: fout.close()
CloseHandleMutant(hs, index) ==
    hs

CloseHandle(hs, index) ==
    hs \ {index}

\* lines 55-58: row_in_file is incremented for a row that was written
CountRowMutant(rif, written) ==
    rif + 1

CountRow(rif, written) ==
    IF written THEN rif + 1 ELSE rif

\* the data rows of a partition file
Rows(content) ==
    SelectSeq(content, LAMBDA r : r.kind = "data")

PartInit ==
    /\ source \in UNION {[1..n -> LineSet] : n \in 0..MaxLines}
    /\ ROWS_PER_FILE \in 1..MaxCap
    /\ file_index = 1
    /\ row_in_file = 0
    /\ processed = 0
    /\ fs = <<>>
    /\ handles = {}
    /\ created = <<>>
    /\ assign = <<>>
    /\ pc = "start"
    /\ fin = "unopened"
    /\ run = 1
    /\ first = [fs |-> <<>>, assign |-> <<>>, file_index |-> 0]

\* lines 40-43: the source is opened and the first partition with it
OpenFirst ==
    /\ pc = "start"
    /\ fs' = open_new_file(fs, file_index)
    /\ handles' = handles \cup {file_index}
    /\ created' = Append(created, file_index)
    /\ fin' = "open"
    /\ pc' = "loop"
    /\ UNCHANGED <<source, ROWS_PER_FILE, file_index, row_in_file, processed,
                   assign, run, first>>

\* lines 40-43: the source cannot be opened, or the first partition cannot be
\* created; the with-block closes the source if it was opened
StartFails ==
    /\ pc = "start"
    /\ fin' = "closed"
    /\ pc' = "failed"
    /\ UNCHANGED <<source, ROWS_PER_FILE, file_index, row_in_file, processed,
                   fs, handles, created, assign, run, first>>

\* lines 45-69: one iteration of the loop over the reader
ReadLine ==
    /\ pc = "loop"
    /\ processed < Len(source)
    /\ LET line == source[processed + 1]
           rotate == NeedRotate(row_in_file, ROWS_PER_FILE)
           idx1 == IF rotate THEN NextIndex(file_index) ELSE file_index
           rif1 == IF rotate THEN 0 ELSE row_in_file
           fs1 == IF rotate THEN open_new_file(fs, idx1) ELSE fs
           hs1 == IF rotate THEN CloseHandle(handles, file_index) \cup {idx1}
                  ELSE handles
           cr1 == IF rotate THEN Append(created, idx1) ELSE created
       IN  /\ processed' = processed + 1
           /\ file_index' = idx1
           /\ handles' = hs1
           /\ created' = cr1
           /\ IF WellFormed(line)
              THEN /\ fs' = [fs1 EXCEPT ![idx1] = Append(@, DataRow(Cleaned(line)))]
                   /\ row_in_file' = CountRow(rif1, TRUE)
                   /\ assign' = Append(assign, idx1)
              ELSE /\ fs' = fs1
                   /\ row_in_file' = CountRow(rif1, FALSE)
                   /\ assign' = Append(assign, 0)
    /\ UNCHANGED <<source, ROWS_PER_FILE, pc, fin, run, first>>

\* lines 45-58 under the with of line 40: an iteration that raises. The reader
\* raises on the read, open() raises in the rotation, or writer.writerow
\* raises on the data row. The exception leaves the with-block, which closes
\* the source; nothing closes fout.
ReadLineFails ==
    /\ pc = "loop"
    /\ \E fault \in {"read", "open", "write"} :
          CASE fault = "read" ->
                   UNCHANGED <<processed, file_index, row_in_file, fs, handles,
                               created>>
            [] fault = "open" ->
                   /\ processed < Len(source)
                   /\ NeedRotate(row_in_file, ROWS_PER_FILE)
                   /\ processed' = processed + 1
                   /\ handles' = CloseHandle(handles, file_index)
                   /\ file_index' = NextIndex(file_index)
                   /\ row_in_file' = 0
                   /\ UNCHANGED <<fs, created>>
            [] OTHER ->
                   /\ processed < Len(source)
                   /\ WellFormed(source[processed + 1])
                   /\ LET rotate == NeedRotate(row_in_file, ROWS_PER_FILE)
                          idx1 == IF rotate THEN NextIndex(file_index) ELSE file_index
                      IN  /\ processed' = processed + 1
                          /\ file_index' = idx1
                          /\ row_in_file' = IF rotate THEN 0 ELSE row_in_file
                          /\ fs' = IF rotate THEN open_new_file(fs, idx1) ELSE fs
                          /\ handles' = IF rotate
                                        THEN CloseHandle(handles, file_index) \cup {idx1}
                                        ELSE handles
                          /\ created' = IF rotate THEN Append(created, idx1) ELSE created
    /\ fin' = "closed"
    /\ pc' = "failed"
    /\ UNCHANGED <<source, ROWS_PER_FILE, assign, run, first>>

\* lines 71-75: the reader is exhausted, the last partition is closed and the
\* totals are reported
Finish ==
    /\ pc = "loop"
    /\ processed = Len(source)
    /\ handles' = CloseHandle(handles, file_index)
    /\ fin' = "closed"
    /\ pc' = "done"
    /\ UNCHANGED <<source, ROWS_PER_FILE, file_index, row_in_file, processed,
                   fs, created, assign, run, first>>

\* lines 29-32: the script is run again on the same source; the module-level
\* counters start over, the files of the first run are still on disk
Rerun ==
    /\ pc = "done"
    /\ run = 1
    /\ first' = [fs |-> fs, assign |-> assign, file_index |-> file_index]
    /\ run' = 2
    /\ file_index' = 1
    /\ row_in_file' = 0
    /\ processed' = 0
    /\ created' = <<>>
    /\ assign' = <<>>
    /\ fin' = "unopened"
    /\ pc' = "start"
    /\ UNCHANGED <<source, ROWS_PER_FILE, fs, handles>>

LoadIdle ==
    /\ lpc = "idle"
    /\ file_num = 1
    /\ row_num = 0
    /\ row = <<>>
    /\ imported = 0
    /\ skipped = 0
    /\ batch = <<>>
    /\ videos = <<>>
    /\ submitted = <<>>
    /\ total_imported = 0
    /\ total_skipped = 0
    /\ failures = {}
    /\ started = {}
    /\ returned = <<>>
    /\ rows_read = 0

\* no derivation is being applied
FuncOff ==
    /\ text = <<>>
    /\ fpc = "off"
    /\ derived = <<>>

\* the per-row loader is not run
PgOff ==
    /\ pg_pc = "off"
    /\ pg_file = 1
    /\ pg_row_num = 0
    /\ pg_row = <<>>
    /\ pg_imported = 0
    /\ pg_skipped = 0
    /\ pg_staging = <<>>
    /\ pg_videos = <<>>
    /\ pg_uncommitted = 0
    /\ pg_tx = "ok"
    /\ pg_total_imported = 0
    /\ pg_total_skipped = 0
    /\ pg_rows_read = 0

Init ==
    PartInit /\ LoadIdle /\ FuncOff /\ PgOff

Next ==
    \/ OpenFirst /\ UNCHANGED <<lvars, fvars, gvars>>
    \/ StartFails /\ UNCHANGED <<lvars, fvars, gvars>>
    \/ ReadLine /\ UNCHANGED <<lvars, fvars, gvars>>
    \/ ReadLineFails /\ UNCHANGED <<lvars, fvars, gvars>>
    \/ Finish /\ UNCHANGED <<lvars, fvars, gvars>>
    \/ Rerun /\ UNCHANGED <<lvars, fvars, gvars>>

Spec ==
    Init /\ [][Next]_vars

(***************************************************************************)
(* Properties of the partitioner                                           *)
(***************************************************************************)
\* the number of data rows partition i holds on disk
RowCount(i) ==
    Len(Rows(fs[i]))

CreatedSet ==
    {created[k] : k \in DOMAIN created}

RECURSIVE SumRowCounts(_)
SumRowCounts(S) ==
    IF S = {} THEN 0
    ELSE LET i == CHOOSE x \in S : TRUE IN RowCount(i) + SumRowCounts(S \ {i})

\* a line with fewer fields than the largest schema index + 1
TooShort(line) ==
    Len(line) <= max_col_index

\* the too-short lines among the first n lines of the source
MalformedCount(n) ==
    Cardinality({k \in 1..n : TooShort(source[k])})

CeilDiv(a, b) ==
    (a + b - 1) \div b

\* t is s without its leading and trailing whitespace
IsTrimOf(t, s) ==
    \E a \in 0..Len(s), b \in 0..Len(s) :
        /\ a + b <= Len(s)
        /\ t = SubSeq(s, a + 1, Len(s) - b)
        /\ \A i \in 1..a : s[i] \in Whitespace
        /\ \A i \in (Len(s) - b + 1)..Len(s) : s[i] \in Whitespace
        /\ t # <<>> => (t[1] \notin Whitespace /\ t[Len(t)] \notin Whitespace)

\* the cells of the data rows of partitions i..n, in index order
RECURSIVE ConcatRows(_, _)
ConcatRows(i, n) ==
    IF i > n THEN <<>>
    ELSE [k \in DOMAIN Rows(fs[i]) |-> Rows(fs[i])[k].cells] \o ConcatRows(i + 1, n)

\* C1: rows_in_current_partition (row_in_file) never exceeds the cap, and no
\* partition file ever holds more than cap data rows.
C1_CapRespected ==
    /\ row_in_file <= ROWS_PER_FILE
    /\ \A i \in DOMAIN fs : RowCount(i) <= ROWS_PER_FILE

\* the current partition is full, a second partition exists and lines remain
C1_Witness ==
    /\ pc = "loop"
    /\ row_in_file = ROWS_PER_FILE
    /\ file_index >= 2
    /\ processed < Len(source)

\* C2: after each processed line and at termination, the data rows of the
\* partitions created so far plus the malformed lines seen add up to
\* rows_processed_total (processed).
C2_RowsAccounted ==
    pc \in {"loop", "done"} =>
        SumRowCounts(CreatedSet) + MalformedCount(processed) = processed

C2_Witness ==
    /\ pc = "done"
    /\ run = 2
    /\ MalformedCount(processed) >= 1
    /\ processed - MalformedCount(processed) >= 1
    /\ file_index >= 2

\* C3 as stated: N lines and cap C give exactly ceil(N/C) partitions, whether
\* or not some of the N lines are malformed.
C3_Original ==
    (pc = "done" /\ Len(source) >= 1) =>
        /\ file_index = CeilDiv(Len(source), ROWS_PER_FILE)
        /\ Cardinality(CreatedSet) = CeilDiv(Len(source), ROWS_PER_FILE)

\* C3 amended: the partitions are filled with well-formed rows only. With G
\* the well-formed lines among all lines but the last and W those among all
\* lines, 1 + floor(G/C) partitions are created, all but the last hold C rows
\* and the last holds the rest; this is ceil(N/C) partitions of sizes
\* [C, ..., C, remainder] when N >= 1 and no line is malformed.
C3_PartitionCount ==
    pc = "done" =>
        LET N == Len(source)
            C == ROWS_PER_FILE
            W == N - MalformedCount(N)
            G == IF N = 0 THEN 0 ELSE (N - 1) - MalformedCount(N - 1)
            n == 1 + (G \div C)
        IN  /\ file_index = n
            /\ CreatedSet = 1..n
            /\ Len(created) = n
            /\ \A i \in 1..(n - 1) : RowCount(i) = C
            /\ RowCount(n) = W - C * (n - 1)
            /\ (W = N /\ N >= 1) => n = CeilDiv(N, C)

\* five lines, cap two, one of them malformed: two partitions, not three
C3_Witness ==
    /\ pc = "done"
    /\ Len(source) = 5
    /\ ROWS_PER_FILE = 2
    /\ MalformedCount(5) = 1
    /\ file_index = 2

\* C4: at termination every partition but the last holds exactly cap data
\* rows, and the partitions are numbered 1, 2, ..., n without gap or repeat.
C4_FullAndSequential ==
    pc = "done" =>
        /\ \A k \in 1..(Len(created) - 1) : RowCount(created[k]) = ROWS_PER_FILE
        /\ created = [k \in 1..Len(created) |-> k]
        /\ Len(created) = file_index
        /\ Len(created) >= 1

C4_Witness ==
    /\ pc = "done"
    /\ file_index >= 3
    /\ RowCount(file_index) < ROWS_PER_FILE
    /\ MalformedCount(processed) >= 1

\* C5: the data rows of partitions 1..n, concatenated in index order, are the
\* well-formed source lines in source order, each projected on the schema
\* columns and trimmed.
C5_RowsPreserved ==
    pc = "done" =>
        LET out == ConcatRows(1, file_index)
            good == SelectSeq(source, LAMBDA l : ~TooShort(l))
        IN  /\ Len(out) = Len(good)
            /\ \A j \in 1..Len(out) :
                   /\ DOMAIN out[j] = DOMAIN COLUMNS
                   /\ \A k \in DOMAIN COLUMNS :
                          IsTrimOf(out[j][k], good[j][COLUMNS[k].idx + 1])

C5_Witness ==
    /\ pc = "done"
    /\ file_index >= 2
    /\ \E i, j, k \in 1..Len(source) :
           /\ i < j /\ j < k
           /\ source[i] = LineWide /\ source[j] = LineShort /\ source[k] = LineExact

\* C6: running the partitioner again on the same source with the same cap
\* leaves the same partitions: same number, same rows in the same files in
\* the same order.
C6_RerunIdentical ==
    (run = 2 /\ pc = "done") =>
        /\ fs = first.fs
        /\ assign = first.assign
        /\ file_index = first.file_index

C6_Witness ==
    /\ run = 2
    /\ pc = "done"
    /\ file_index >= 2
    /\ MalformedCount(processed) >= 1

\* C11 as stated: on every exit path the source stream and every partition
\* file that was opened have been closed.
C11_Original ==
    pc \in {"done", "failed"} => (fin = "closed" /\ handles = {})

\* a step of the loop that handled the next line without raising
LineStep ==
    pc = "loop" /\ processed' = processed + 1 /\ pc' # "failed"

\* C17: a line with fewer fields than the largest schema index + 1 adds
\* exactly 1 to processed, puts no data row in any partition, does not
\* increment row_in_file and does not stop the run: the loop goes on and ends
\* only when every line has been processed.
C17_MalformedDropped ==
    /\ [](pc = "done" => processed = Len(source))
    /\ [][(LineStep /\ TooShort(source[processed + 1])) =>
            /\ pc' = "loop"
            /\ row_in_file' <= row_in_file
            /\ assign' = Append(assign, 0)
            /\ \A i \in DOMAIN fs' :
                   \/ Rows(fs'[i]) = <<>>
                   \/ i \in DOMAIN fs /\ Rows(fs'[i]) = Rows(fs[i])
         ]_vars

\* a too-short line was dropped and the line after it was written
C17_Witness ==
    /\ pc = "loop"
    /\ processed = 2
    /\ TooShort(source[1])
    /\ assign = <<0, 1>>
    /\ row_in_file = 1
    /\ RowCount(1) = 1

\* C18: every partition file holds the header row exactly once, as its first
\* row and so before every data row, whether it was opened first or by a
\* rotation.
C18_HeaderFirstOnce ==
    /\ CreatedSet \subseteq DOMAIN fs
    /\ \A i \in DOMAIN fs :
           /\ fs[i] # <<>>
           /\ fs[i][1].kind = "header"
           /\ fs[i][1].cells = [k \in DOMAIN COLUMNS |-> COLUMNS[k].name]
           /\ \A k \in 2..Len(fs[i]) : fs[i][k].kind = "data"

\* the re-run has rewritten a partition opened by rotation, rows included
C18_Witness ==
    /\ run = 2
    /\ pc = "done"
    /\ file_index >= 2
    /\ RowCount(2) >= 1

\* C20: at most one partition file is open at any time, a rotation closes the
\* current partition before the next one is open, and a run over a finite
\* source ends: every step of the loop consumes a line, the run is never stuck
\* before its end, and when the source is exhausted the last partition is
\* closed and file_index is the number of files created.
C20_OneOpenClosedAtEnd ==
    /\ [](Cardinality(handles) <= 1)
    /\ [](pc = "done" =>
              /\ handles = {}
              /\ fin = "closed"
              /\ processed = Len(source)
              /\ file_index = Len(created)
              /\ file_index = Cardinality(CreatedSet))
    /\ [](processed <= Len(source))
    /\ [](pc \in {"done", "failed"} \/ ENABLED Next)
    /\ [][(pc = "loop" /\ pc' = "loop") => processed' = processed + 1]_vars
    /\ [][(pc = "loop" /\ created' # created) =>
              /\ file_index \notin handles'
              /\ handles' = {file_index'}
         ]_vars

C20_Witness ==
    /\ pc = "done"
    /\ file_index >= 3
    /\ handles = {}
    /\ fin = "closed"

(***************************************************************************)
(* src/script/import-clean-data.py: field derivation                       *)
(* None is the empty sequence <<>> and a value v that is present is <<v>>  *)
(* where a function returns "a value or None".                             *)
(***************************************************************************)
\* the files main imports; the source lists seven, the model keeps two
CSV_FILES ==
    <<"data_clean_part_1.csv", "data_clean_part_2.csv">>

Digits ==
    {"0", "1", "2", "3", "4", "5", "6", "7", "8", "9"}

LowerLetters ==
    {"a", "b", "c", "d", "e", "f", "g", "h", "i", "j", "k", "l", "m",
     "n", "o", "p", "q", "r", "s", "t", "u", "v", "w", "x", "y", "z"}

DigitValue(c) ==
    CHOOSE d \in 0..9 : <<"0", "1", "2", "3", "4", "5", "6", "7", "8", "9">>[d + 1] = c

\* the value of a non-empty run of decimal digits
RECURSIVE DecimalValue(_)
DecimalValue(ds) ==
    IF ds = <<>> THEN 0
    ELSE 10 * DecimalValue(SubSeq(ds, 1, Len(ds) - 1)) + DigitValue(ds[Len(ds)])

\* the longest prefix of s made of characters of S
RECURSIVE LongestPrefixIn(_, _)
LongestPrefixIn(s, S) ==
    IF s # <<>> /\ s[1] \in S
    THEN <<s[1]>> \o LongestPrefixIn(Tail(s), S)
    ELSE <<>>

\* lines 33-38: re.search(r'video\.([a-z0-9]+)', url), leftmost match, the
\* group as long as it can be
extract_video_id(url) ==
    LET lit == <<"v", "i", "d", "e", "o", ".">>
        hits == {q \in 1..Len(url) :
                    /\ q + Len(lit) <= Len(url)
                    /\ SubSeq(url, q, q + Len(lit) - 1) = lit
                    /\ url[q + Len(lit)] \in LowerLetters \cup Digits}
    IN  IF url = <<>> \/ hits = {} THEN <<>>
        ELSE LET q == CHOOSE h \in hits : \A g \in hits : h <= g
             IN  <<LongestPrefixIn(SubSeq(url, q + Len(lit), Len(url)),
                                   LowerLetters \cup Digits)>>

\* lines 40-44: the fixed iframe text around the identifier
construct_iframe(video_id) ==
    IF video_id = <<>> \/ video_id[1] = <<>> THEN <<>>
    ELSE << <<"<iframe src=\"https://www.xvideos.com/embedframe/">>
            \o video_id[1]
            \o <<"\" frameborder=\"0\" width=\"510\" height=\"400\" scrolling=\"no\" allowfullscreen=\"allowfullscreen\"></iframe>">> >>

\* lines 46-51: the first run of digits, as an integer
parse_duration(duration_str) ==
    LET hits == {q \in 1..Len(duration_str) : duration_str[q] \in Digits}
    IN  IF duration_str = <<>> \/ hits = {} THEN <<>>
        ELSE LET q == CHOOSE h \in hits : \A g \in hits : h <= g
             IN  <<DecimalValue(LongestPrefixIn(
                       SubSeq(duration_str, q, Len(duration_str)), Digits))>>

\* what int() accepts once surrounding whitespace is gone: an optional sign,
\* then digits, single underscores allowed between two digits
IsIntLiteral(t) ==
    LET body == IF t # <<>> /\ t[1] \in {"+", "-"} THEN Tail(t) ELSE t
    IN  /\ body # <<>>
        /\ \A i \in 1..Len(body) : body[i] \in Digits \cup {"_"}
        /\ body[1] \in Digits
        /\ body[Len(body)] \in Digits
        /\ \A i \in 1..(Len(body) - 1) : ~(body[i] = "_" /\ body[i + 1] = "_")

IntLiteralValue(t) ==
    LET neg == t[1] = "-"
        body == IF t[1] \in {"+", "-"} THEN Tail(t) ELSE t
        mag == DecimalValue(SelectSeq(body, LAMBDA c : c # "_"))
    IN  IF neg THEN 0 - mag ELSE mag

\* lines 53-60: commas removed, stripped, int() or 0
parse_views(views_str) ==
    IF views_str = <<>> THEN 0
    ELSE LET t == strip(SelectSeq(views_str, LAMBDA c : c # ","))
         IN  IF IsIntLiteral(t) THEN IntLiteralValue(t) ELSE 0

(***************************************************************************)
(* src/script/import-clean-data.py: import_csv_file and main               *)
(***************************************************************************)
\* csv.DictReader keys each cell by the header of the partition file, which
\* is the partitioner's header row
ColPos(name) ==
    CHOOSE k \in DOMAIN COLUMNS : COLUMNS[k].name = name

\* lines 215-227: the columns the loop reads
UsedColumns ==
    {"video_url", "title", "duration", "thumbnail_url", "embed_code", "tags",
     "actors", "views", "category", "quality", "uploader", "publish_date",
     "thumbnail_url_2"}

\* DictReader gives None for the columns a short row lacks, and
\* None.strip() raises
RaisesMutant(r) ==
    FALSE

Raises(r) ==
    \E name \in UsedColumns : ColPos(name) > Len(r)

\* row.get(name, '').strip()
Field(r, name) ==
    IF ColPos(name) > Len(r) THEN <<>> ELSE strip(r[ColPos(name)])

\* line 243
final_thumbnail(thumbnail_url, thumbnail_url_2) ==
    IF thumbnail_url_2 # <<>> THEN thumbnail_url_2 ELSE thumbnail_url

\* lines 230 and 245: the two skip tests
GateMutant(title, video_url, thumbnail) ==
    title # <<>> /\ video_url # <<>>

Gate(title, video_url, thumbnail) ==
    title # <<>> /\ video_url # <<>> /\ thumbnail # <<>>

\* lines 250-263: the tuple appended to the batch, with the row it is from
Record(r, f, n) ==
    [ title         |-> Field(r, "title"),
      source_url    |-> Field(r, "video_url"),
      thumbnail_url |-> final_thumbnail(Field(r, "thumbnail_url"),
                                        Field(r, "thumbnail_url_2")),
      duration      |-> parse_duration(Field(r, "duration")),
      category      |-> Field(r, "category"),
      iframe        |-> construct_iframe(extract_video_id(Field(r, "video_url"))),
      tags          |-> Field(r, "tags"),
      performers    |-> Field(r, "actors"),
      quality       |-> Field(r, "quality"),
      uploader      |-> Field(r, "uploader"),
      publish_date  |-> Field(r, "publish_date"),
      views         |-> parse_views(Field(r, "views")),
      src           |-> <<f, n>> ]

\* the rows of a partition file the loader is fed
RowBase ==
    [i \in 1..15 |-> IF i = 1 THEN <<"s", "/", "v", "i", "d", "e", "o", ".", "a", "1", "/">>
                     ELSE IF i = 2 THEN <<"X">>
                     ELSE IF i = 3 THEN <<"9", "0", " ", "s">>
                     ELSE IF i = 8 THEN <<"1", ",", "2">>
                     ELSE IF i = 14 THEN <<"t", "2">>
                     ELSE <<>>]

RowPrimary ==
    [RowBase EXCEPT ![2] = <<"Y", " ">>, ![4] = <<"t", "1">>, ![14] = <<" ">>,
                    ![1] = <<"u">>, ![3] = <<"s">>, ![8] = <<"a">>]

RowNoTitle ==
    [RowBase EXCEPT ![2] = <<" ">>]

RowNoUrl ==
    [RowBase EXCEPT ![1] = <<>>]

RowNoThumb ==
    [RowBase EXCEPT ![4] = <<" ">>, ![14] = <<>>]

RowShort ==
    SubSeq(RowPrimary, 1, 13)

RowSet ==
    {RowBase, RowPrimary, RowNoTitle, RowNoUrl, RowNoThumb, RowShort}

\* lines 301-303: the except around the body of import_csv_file returns
\* (0, 0) to main
OuterExceptMutant ==
    "raise"

OuterExcept ==
    "return"

LoadInit ==
    /\ lpc = "reset"
    /\ file_num = 1
    /\ row_num = 0
    /\ row = <<>>
    /\ imported = 0
    /\ skipped = 0
    /\ batch = <<>>
    /\ videos = <<>>
    /\ submitted = <<>>
    /\ total_imported = 0
    /\ total_skipped = 0
    /\ failures = {}
    /\ started = {}
    /\ returned = <<>>
    /\ rows_read = 0

\* lines 62-104 and 372-374: the database is dropped and created, or main
\* returns
DropAndCreateDatabase ==
    /\ lpc = "reset"
    /\ \E ok \in BOOLEAN : lpc' = IF ok THEN "tables" ELSE "aborted"
    /\ UNCHANGED <<file_num, row_num, row, imported, skipped, batch, videos,
                   submitted, total_imported, total_skipped, failures, started,
                   returned, rows_read>>

\* lines 106-183 and 377-379
CreateTables ==
    /\ lpc = "tables"
    /\ \E ok \in BOOLEAN : lpc' = IF ok THEN "file" ELSE "aborted"
    /\ UNCHANGED <<file_num, row_num, row, imported, skipped, batch, videos,
                   submitted, total_imported, total_skipped, failures, started,
                   returned, rows_read>>

\* lines 388-390: import_csv_file has returned (imp, skp) to main's loop
Return(imp, skp) ==
    /\ returned' = Append(returned, <<imp, skp>>)
    /\ total_imported' = total_imported + imp
    /\ total_skipped' = total_skipped + skp
    /\ file_num' = file_num + 1
    /\ lpc' = "file"

\* an exception reaches the except of lines 301-303
Except ==
    /\ IF OuterExcept = "return"
       THEN Return(0, 0)
       ELSE /\ lpc' = "aborted"
            /\ UNCHANGED <<returned, total_imported, total_skipped, file_num>>

\* lines 386-388 and 185-210: main calls import_csv_file for the next file;
\* the file is missing, the connection or the open fails, or the loop starts
ImportStart ==
    /\ lpc = "file"
    /\ file_num <= Len(CSV_FILES)
    /\ started' = started \cup {file_num}
    /\ \E outcome \in {"missing", "no_connection", "no_open", "ok"} :
          CASE outcome = "missing" ->
                   /\ failures' = failures \cup {file_num}
                   /\ Return(0, 0)
                   /\ UNCHANGED <<row_num, row, imported, skipped, batch, submitted>>
            [] outcome \in {"no_connection", "no_open"} ->
                   /\ failures' = failures \cup {file_num}
                   /\ Except
                   /\ UNCHANGED <<row_num, row, imported, skipped, batch, submitted>>
            [] OTHER ->
                   /\ imported' = 0
                   /\ skipped' = 0
                   /\ batch' = <<>>
                   /\ row_num' = 0
                   /\ row' = <<>>
                   /\ submitted' = <<>>
                   /\ lpc' = "rows"
                   /\ UNCHANGED <<file_num, total_imported, total_skipped,
                                  failures, returned>>
    /\ UNCHANGED <<videos, rows_read>>

\* lines 267-276 and 286-293: executemany and commit of rows, which the sink
\* accepts or rejects as a whole
Submit(rows, ok) ==
    /\ submitted' = Append(submitted,
                           [rows |-> [k \in DOMAIN rows |-> rows[k].src], ok |-> ok])
    /\ videos' = IF ok THEN videos \o rows ELSE videos

\* lines 212-282: one iteration of the row loop
ReadRow ==
    /\ lpc = "rows"
    /\ rows_read < MaxRows
    /\ rows_read' = rows_read + 1
    /\ \E r \in RowSet :
          /\ row' = r
          /\ row_num' = row_num + 1
          /\ IF Raises(r)
             THEN /\ skipped' = skipped + 1
                  /\ UNCHANGED <<imported, batch, videos, submitted>>
             ELSE LET rec == Record(r, file_num, row_num + 1)
                      batch1 == Append(batch, rec)
                  IN  IF ~Gate(rec.title, rec.source_url, rec.thumbnail_url)
                      THEN /\ skipped' = skipped + 1
                           /\ UNCHANGED <<imported, batch, videos, submitted>>
                      ELSE IF Len(batch1) >= batch_size
                      THEN \E ok \in BOOLEAN :
                              /\ Submit(batch1, ok)
                              /\ IF ok
                                 THEN /\ imported' = imported + Len(batch1)
                                      /\ batch' = <<>>
                                      /\ skipped' = skipped
                                 ELSE /\ imported' = imported
                                      /\ batch' = batch1
                                      /\ skipped' = skipped + 1
                      ELSE /\ batch' = batch1
                           /\ UNCHANGED <<imported, skipped, videos, submitted>>
    /\ UNCHANGED <<lpc, file_num, total_imported, total_skipped, failures,
                   started, returned>>

\* line 212 under lines 301-303: the reader raises while it is iterated
ReadFail ==
    /\ lpc = "rows"
    /\ Except
    /\ UNCHANGED <<row_num, row, imported, skipped, batch, videos, submitted,
                   failures, started, rows_read>>

\* line 285: if batch
HasRemainingMutant(b) == FALSE

HasRemaining(b) == b # <<>>

\* lines 284-303: the reader is exhausted, the remaining batch is inserted
\* and import_csv_file returns
EndOfFile ==
    /\ lpc = "rows"
    /\ IF HasRemaining(batch)
       THEN \E ok \in BOOLEAN :
               /\ Submit(batch, ok)
               /\ IF ok
                  THEN /\ imported' = imported + Len(batch)
                       /\ Return(imported + Len(batch), skipped)
                  ELSE /\ imported' = imported
                       /\ Except
       ELSE /\ Return(imported, skipped)
            /\ UNCHANGED <<imported, videos, submitted>>
    /\ UNCHANGED <<row_num, row, skipped, batch, failures, started, rows_read>>

\* lines 392-399: the loop over CSV_FILES is over
Summary ==
    /\ lpc = "file"
    /\ file_num > Len(CSV_FILES)
    /\ lpc' = "done"
    /\ UNCHANGED <<file_num, row_num, row, imported, skipped, batch, videos,
                   submitted, total_imported, total_skipped, failures, started,
                   returned, rows_read>>

\* the partitioner is not part of a run of the loader
PartOff ==
    /\ source = <<>>
    /\ ROWS_PER_FILE = 1
    /\ file_index = 1
    /\ row_in_file = 0
    /\ processed = 0
    /\ fs = <<>>
    /\ handles = {}
    /\ created = <<>>
    /\ assign = <<>>
    /\ pc = "off"
    /\ fin = "unopened"
    /\ run = 1
    /\ first = [fs |-> <<>>, assign |-> <<>>, file_index |-> 0]

LoadNext ==
    \/ DropAndCreateDatabase /\ UNCHANGED <<pvars, fvars, gvars>>
    \/ CreateTables /\ UNCHANGED <<pvars, fvars, gvars>>
    \/ ImportStart /\ UNCHANGED <<pvars, fvars, gvars>>
    \/ ReadRow /\ UNCHANGED <<pvars, fvars, gvars>>
    \/ ReadFail /\ UNCHANGED <<pvars, fvars, gvars>>
    \/ EndOfFile /\ UNCHANGED <<pvars, fvars, gvars>>
    \/ Summary /\ UNCHANGED <<pvars, fvars, gvars>>

LInit ==
    LoadInit /\ PartOff /\ FuncOff /\ PgOff

LoadSpec ==
    LInit /\ [][LoadNext]_vars

(***************************************************************************)
(* Properties of the batch loader                                          *)
(***************************************************************************)
NonBlank(cell) ==
    \E i \in DOMAIN cell : cell[i] \notin Whitespace

\* the row has a cell for every column the loader reads
HasCells(r) ==
    \A name \in UsedColumns : ColPos(name) <= Len(r)

\* title and source URL are non-empty and one of the thumbnails is
PassesGate(r) ==
    /\ HasCells(r)
    /\ NonBlank(r[ColPos("title")])
    /\ NonBlank(r[ColPos("video_url")])
    /\ NonBlank(r[ColPos("thumbnail_url_2")]) \/ NonBlank(r[ColPos("thumbnail_url")])

\* the secondary thumbnail when it is non-empty, the primary otherwise
ResolvedThumbnailCell(r) ==
    IF NonBlank(r[ColPos("thumbnail_url_2")])
    THEN r[ColPos("thumbnail_url_2")]
    ELSE r[ColPos("thumbnail_url")]

\* a step of the row loop: row' is the row it read
RowStep ==
    lpc = "rows" /\ row_num' = row_num + 1

SeqRange(q) ==
    {q[k] : k \in DOMAIN q}

\* C7: a record enters the batch (and so the sink) only if its title, its
\* source URL and its resolved thumbnail are non-empty, the resolved thumbnail
\* being the secondary one when non-empty and the primary otherwise; a record
\* failing the gate adds exactly 1 to skipped and leaves batch and imported
\* as they were.
C7_GateOnly ==
    /\ [](\A e \in SeqRange(batch) \cup SeqRange(videos) :
              e.title # <<>> /\ e.source_url # <<>> /\ e.thumbnail_url # <<>>)
    /\ [][RowStep =>
            /\ ~PassesGate(row') =>
                   /\ skipped' = skipped + 1
                   /\ batch' = batch
                   /\ imported' = imported
                   /\ videos' = videos
                   /\ submitted' = submitted
            /\ PassesGate(row') =>
                   /\ batch' # <<>> \/ videos' # <<>>
                   /\ LET e == IF batch' # <<>> THEN batch'[Len(batch')]
                               ELSE videos'[Len(videos')]
                      IN  /\ e.src = <<file_num, row_num'>>
                          /\ IsTrimOf(e.thumbnail_url, ResolvedThumbnailCell(row'))
         ]_vars

\* a record with only a secondary thumbnail is pending and the row after it,
\* which has no thumbnail, was skipped
C7_Witness ==
    /\ lpc = "rows"
    /\ row = RowNoThumb
    /\ skipped = 1
    /\ Len(batch) = 1
    /\ batch[1].thumbnail_url = <<"t", "2">>
    /\ batch[1].src = <<file_num, row_num - 1>>

\* C8 as stated: the rows of a batch the sink rejected are not submitted
\* again and never count as imported.
C8_Original ==
    \A j \in DOMAIN submitted :
        ~submitted[j].ok =>
            /\ \A k \in DOMAIN submitted :
                   j < k => SeqRange(submitted[j].rows) \cap SeqRange(submitted[k].rows) = {}
            /\ \A e \in SeqRange(videos) : e.src \notin SeqRange(submitted[j].rows)

\* C9: an error raised while one record is derived is caught in the row loop:
\* the record counts as skipped once, nothing of it enters the batch, and the
\* loop goes on with the records after it.
C9_RowErrorIsolated ==
    [][(RowStep /\ ~HasCells(row')) =>
          /\ skipped' = skipped + 1
          /\ batch' = batch
          /\ imported' = imported
          /\ videos' = videos
          /\ submitted' = submitted
          /\ lpc' = "rows"
          /\ file_num' = file_num
          /\ returned' = returned
      ]_vars

C9_Witness ==
    /\ lpc = "rows"
    /\ row = RowShort
    /\ row_num = 2
    /\ skipped = 1
    /\ Len(batch) = 1

\* C10 as stated: after a partition file that cannot be opened or a
\* connection that cannot be established, no later partition is processed.
C10_Original ==
    \A f \in failures : \A g \in started : g <= f

\* C10 amended: a partition file that is missing or cannot be opened, or a
\* connection that cannot be established, ends the import of that partition
\* only: import_csv_file returns (0, 0) for it and main goes on with every
\* later partition; the run stops early only when the database reset or the
\* table creation fails, before any partition is processed.
C10_FailureSkipsPartition ==
    /\ \A f \in failures : f \in DOMAIN returned /\ returned[f] = <<0, 0>>
    /\ lpc = "aborted" => started = {}
    /\ lpc = "done" => started = 1..Len(CSV_FILES)

\* the first partition failed and rows of the second were imported
C10_Witness ==
    /\ lpc = "done"
    /\ failures = {1}
    /\ total_imported >= 1
    /\ total_imported = Len(videos)

\* the import of the partition returned last ran its row loop
LastRanLoop ==
    /\ lpc \in {"file", "done"}
    /\ returned # <<>>
    /\ Len(returned) \notin failures

\* the rows of partition f the sink holds
CommittedOf(f) ==
    {i \in DOMAIN videos : videos[i].src[1] = f}

\* C14 as stated: whatever the sink answers, the pending batch never holds
\* more than batch_size records.
C14_Original ==
    Len(batch) <= batch_size

\* C16 as stated: when a submission fails after an earlier batch of the
\* partition was committed, the rows committed earlier stay in the sink and
\* the imported count the import returns includes them.
C16_Original ==
    (/\ LastRanLoop
     /\ \E j, k \in DOMAIN submitted :
           j < k /\ submitted[j].ok /\ ~submitted[k].ok) =>
        /\ \A j \in DOMAIN submitted :
               submitted[j].ok =>
                   SeqRange(submitted[j].rows) \subseteq
                       {videos[i].src : i \in CommittedOf(Len(returned))}
        /\ returned[Len(returned)][1] = Cardinality(CommittedOf(Len(returned)))

\* C19 as stated: in the row loop imported + skipped + len(batch) is the
\* number of records read, and the counts the import returns add up to the
\* number of records read.
C19_Original ==
    /\ lpc = "rows" => imported + skipped + Len(batch) = row_num
    /\ LastRanLoop =>
           returned[Len(returned)][1] + returned[Len(returned)][2] = row_num

\* the sink accepted every submission of the list
AllOk(sub) ==
    \A j \in DOMAIN sub : sub[j].ok

\* the rows of the submissions of the list, in the order they were submitted
RECURSIVE SubmittedRows(_)
SubmittedRows(sub) ==
    IF sub = <<>> THEN <<>>
    ELSE SubmittedRows(SubSeq(sub, 1, Len(sub) - 1)) \o sub[Len(sub)].rows

\* where the records of a sequence came from
Tags(q) ==
    [k \in DOMAIN q |-> q[k].src]

\* the records of the partition being read that the loop let through: those
\* the sink holds, then those in the batch
Flow ==
    Tags(SelectSeq(videos, LAMBDA v : v.src[1] = file_num)) \o Tags(batch)

\* the records of the batch no submission has carried
Pending ==
    SelectSeq(batch, LAMBDA rec : rec.src \notin SeqRange(SubmittedRows(submitted)))

NoDuplicates(q) ==
    \A j, k \in DOMAIN q : q[j] = q[k] => j = k

extract_video_id_pg(url) ==
    LET lit == <<"v", "i", "d", "e", "o", ".">>
        hits == {q \in 1..Len(url) :
                    /\ q + Len(lit) <= Len(url)
                    /\ SubSeq(url, q, q + Len(lit) - 1) = lit
                    /\ url[q + Len(lit)] \in LowerLetters \cup Digits}
    IN  IF hits = {} THEN <<>>
        ELSE LET q == CHOOSE h \in hits : \A g \in hits : h <= g
             IN  <<LongestPrefixIn(SubSeq(url, q + Len(lit), Len(url)),
                                   LowerLetters \cup Digits)>>

\* lines 19-21: the f-string is built whatever video_id is; None is
\* formatted as the text None
construct_iframe_pg(video_id) ==
    << <<"<iframe src=\"https://www.xvideos.com/embedframe/">>
       \o (IF video_id = <<>> THEN <<"N", "o", "n", "e">> ELSE video_id[1])
       \o <<"\" frameborder=\"0\" width=\"510\" height=\"400\" scrolling=\"no\" allowfullscreen=\"allowfullscreen\"></iframe>">> >>

\* lines 30-34: int() of the text without commas, outside any try; int()
\* ignores surrounding whitespace and raises ValueError on anything else
parse_views_pg(views_str) ==
    IF views_str = <<>> THEN [raised |-> FALSE, value |-> 0]
    ELSE LET t == strip(SelectSeq(views_str, LAMBDA c : c # ","))
         IN  IF IsIntLiteral(t)
             THEN [raised |-> FALSE, value |-> IntLiteralValue(t)]
             ELSE [raised |-> TRUE, value |-> 0]

\* the characters the short texts are made of
TextAlphabet ==
    {"1", "0", ",", "a", " "}

\* texts of the kinds the fields hold: counts with separators, words, URLs
\* with and without an identifier
TextSamples ==
    { <<"1", ",", "2", "3", "4", ",", "5", "6", "7">>,
      <<"a", "b", "c">>,
      <<"-", "5">>,
      <<" ", "1", "_", "0", " ">>,
      <<"1", "3", "0", "5", " ", "s", "e", "c">>,
      <<"h", "t", "t", "p", "s", ":", "/", "/", "s", "i", "t", "e", "/",
        "v", "i", "d", "e", "o", ".", "a", "b", "c", "1", "2", "3">>,
      <<"s", "/", "v", "i", "d", "e", "o", ".", "k", "9", "/", "t">>,
      <<"s", "/", "v", "i", "d", "e", "o", ".", "/", "t">>,
      <<"s", "/", "v", "i", "d", "e", "o", "s">> }

TextSet ==
    UNION {[1..n -> TextAlphabet] : n \in 0..MaxText} \cup TextSamples

FuncInit ==
    /\ text \in TextSet
    /\ fpc = "input"
    /\ derived = <<>>

\* each derivation function of each script applied to text, the iframe
\* functions to the identifier found in it
Derive ==
    /\ fpc = "input"
    /\ derived' = [ views       |-> parse_views(text),
                    views_pg    |-> parse_views_pg(text),
                    duration    |-> parse_duration(text),
                    video_id    |-> extract_video_id(text),
                    video_id_pg |-> extract_video_id_pg(text),
                    iframe      |-> construct_iframe(extract_video_id(text)),
                    iframe_pg   |-> construct_iframe_pg(extract_video_id_pg(text)) ]
    /\ fpc' = "derived"
    /\ UNCHANGED text

FInit ==
    FuncInit /\ PartOff /\ LoadIdle /\ PgOff

FuncNext ==
    Derive /\ UNCHANGED <<pvars, lvars, gvars>>

FuncSpec ==
    FInit /\ [][FuncNext]_vars

\* C12 as stated: parse_views of either script returns an integer for every
\* text and never raises: 0 for the empty text and for text that is no
\* integer once the separators are removed, the integer otherwise.
C12_Original ==
    fpc = "derived" =>
        /\ ~derived.views_pg.raised
        /\ derived.views_pg.value = derived.views
        /\ text = <<>> => derived.views = 0
        /\ text = <<"a", "b", "c">> => derived.views = 0
        /\ text = <<"1", ",", "2", "3", "4", ",", "5", "6", "7">> =>
               derived.views = 1234567

\* C13 as stated: construct_iframe of either script returns None exactly
\* when the identifier is None.
C13_Original ==
    fpc = "derived" =>
        /\ (derived.iframe = <<>>) <=> (derived.video_id = <<>>)
        /\ (derived.iframe_pg = <<>>) <=> (derived.video_id_pg = <<>>)

(***************************************************************************)
(* src/script/import_csv_postgres.py: the per-row loader.  A row is a      *)
(* sequence of cells; row[i] of the source is cell i + 1.  The tables hold *)
(* the rows the INSERT statements wrote; the rows written since the last   *)
(* commit are lost when a statement fails, as the transaction is aborted   *)
(* and the next commit rolls it back.                                      *)
(***************************************************************************)
\* lines 205-213: the files main imports; the source lists seven, the model
\* keeps two
csv_files ==
    <<"data_clean_part_1.csv", "data_clean_part_2.csv">>

\* lines 122-124: if len(row) < 14
TooFewCells(r) ==
    Len(r) < 14

\* lines 126-137: row[i].strip()
Cell(r, i) ==
    strip(r[i + 1])

\* lines 140-142 and 145-148: the skip tests of the row loop
Essential(title, url, video_id) ==
    title # <<>> /\ url # <<>> /\ video_id # <<>>

\* lines 157-162: the tuple inserted into video_staging, with the row it is
\* from
StagingTuple(r, f, n) ==
    [ url            |-> Cell(r, 0),
      title          |-> Cell(r, 1),
      duration       |-> Cell(r, 2),
      thumbnail_url  |-> Cell(r, 3),
      iframe         |-> Cell(r, 4),
      tags           |-> Cell(r, 5),
      actors         |-> Cell(r, 6),
      views          |-> Cell(r, 7),
      quality        |-> Cell(r, 8),
      category       |-> Cell(r, 9),
      empty          |-> <<>>,
      publish_date   |-> Cell(r, 11),
      thumbnail_url2 |-> Cell(r, 12),
      unknown        |-> <<>>,
      src            |-> <<f, n>> ]

\* lines 150-155 and 165-169: the tuple inserted into videos, with the row it
\* is from
VideosTuple(r, f, n) ==
    [ title         |-> Cell(r, 1),
      source_url    |-> Cell(r, 0),
      thumbnail_url |-> IF Cell(r, 12) # <<>> THEN Cell(r, 12) ELSE Cell(r, 3),
      duration      |-> parse_duration(Cell(r, 2)),
      iframe        |-> construct_iframe_pg(extract_video_id_pg(Cell(r, 0))),
      tags          |-> Cell(r, 5),
      performers    |-> Cell(r, 6),
      category      |-> IF Cell(r, 9) # <<>> THEN Cell(r, 9) ELSE Cell(r, 8),
      src           |-> <<f, n>> ]

\* the rows of a file the loader is fed
PgRowGood ==
    [i \in 1..14 |-> IF i = 1 THEN <<"s", "/", "v", "i", "d", "e", "o", ".", "a", "1", "/">>
                     ELSE IF i = 2 THEN <<"X">>
                     ELSE IF i = 3 THEN <<"9", "0", " ", "s">>
                     ELSE IF i = 4 THEN <<"t", "1">>
                     ELSE IF i = 8 THEN <<"1", ",", "2">>
                     ELSE IF i = 13 THEN <<"t", "2">>
                     ELSE <<>>]

PgRowNoThumb ==
    [PgRowGood EXCEPT ![4] = <<" ">>, ![13] = <<>>,
                      ![1] = <<"v", "i", "d", "e", "o", ".", "b", "2">>]

PgRowNoTitle ==
    [PgRowGood EXCEPT ![2] = <<" ">>]

PgRowNoUrl ==
    [PgRowGood EXCEPT ![1] = <<>>]

PgRowNoId ==
    [PgRowGood EXCEPT ![1] = <<"u">>]

PgRowBadViews ==
    [PgRowGood EXCEPT ![8] = <<"a">>]

PgRowShort ==
    SubSeq(PgRowGood, 1, 13)

PgRowSet ==
    {PgRowGood, PgRowNoThumb, PgRowNoTitle, PgRowNoUrl, PgRowNoId,
     PgRowBadViews, PgRowShort}

\* a table without its last n rows
DropLast(table, n) ==
    SubSeq(table, 1, Len(table) - n)
\* lines 188-192: main is about to connect
PgInit ==
    /\ pg_pc = "connect"
    /\ pg_file = 1
    /\ pg_row_num = 0
    /\ pg_row = <<>>
    /\ pg_imported = 0
    /\ pg_skipped = 0
    /\ pg_staging = <<>>
    /\ pg_videos = <<>>
    /\ pg_uncommitted = 0
    /\ pg_tx = "ok"
    /\ pg_total_imported = 0
    /\ pg_total_skipped = 0
    /\ pg_rows_read = 0

\* lines 36-49 and 193-196: get_db_connection returns a connection or None,
\* and main returns on None
get_db_connection ==
    /\ pg_pc = "connect"
    /\ \E ok \in BOOLEAN : pg_pc' = IF ok THEN "tables" ELSE "aborted"
    /\ UNCHANGED <<pg_file, pg_row_num, pg_row, pg_imported, pg_skipped,
                   pg_staging, pg_videos, pg_uncommitted, pg_tx,
                   pg_total_imported, pg_total_skipped, pg_rows_read>>

\* lines 51-98 and 200-202: the tables are created, or a statement raises and
\* main ends with the exception
create_table_if_not_exists ==
    /\ pg_pc = "tables"
    /\ \E ok \in BOOLEAN : pg_pc' = IF ok THEN "file" ELSE "aborted"
    /\ UNCHANGED <<pg_file, pg_row_num, pg_row, pg_imported, pg_skipped,
                   pg_staging, pg_videos, pg_uncommitted, pg_tx,
                   pg_total_imported, pg_total_skipped, pg_rows_read>>

\* lines 220-226: import_csv_file has returned (imp, skp) to main's loop,
\* which adds them up and commits; the commit of an aborted transaction
\* rolls it back
PgReturn(imp, skp) ==
    /\ pg_total_imported' = pg_total_imported + imp
    /\ pg_total_skipped' = pg_total_skipped + skp
    /\ pg_uncommitted' = 0
    /\ pg_tx' = "ok"
    /\ pg_file' = pg_file + 1
    /\ pg_pc' = "file"

\* lines 218-220 and 100-117: main calls import_csv_file for the next file;
\* the file is missing, the open fails (lines 182-186 return the counts, both
\* 0), or the header is skipped and the row loop starts
PgImportStart ==
    /\ pg_pc = "file"
    /\ pg_file <= Len(csv_files)
    /\ \E outcome \in {"missing", "no_open", "ok"} :
          IF outcome = "ok"
          THEN /\ pg_pc' = "rows"
               /\ UNCHANGED <<pg_file, pg_uncommitted, pg_tx,
                              pg_total_imported, pg_total_skipped>>
          ELSE PgReturn(0, 0)
    /\ pg_imported' = 0
    /\ pg_skipped' = 0
    /\ pg_row_num' = 0
    /\ pg_row' = <<>>
    /\ UNCHANGED <<pg_staging, pg_videos, pg_rows_read>>

\* the row is counted as skipped: lines 122-124, 140-142, 146-148; lines
\* 177-180 when something raised
PgSkip ==
    /\ pg_skipped' = pg_skipped + 1
    /\ UNCHANGED pg_imported

\* a statement of the row failed: the transaction is aborted and what it
\* wrote since the last commit is lost
PgStatementFails ==
    /\ pg_staging' = DropLast(pg_staging, pg_uncommitted)
    /\ pg_videos' = DropLast(pg_videos, pg_uncommitted)
    /\ pg_uncommitted' = 0

\* lines 119-180: one iteration of the row loop
PgReadRow ==
    /\ pg_pc = "rows"
    /\ pg_rows_read < MaxPgRows
    /\ pg_rows_read' = pg_rows_read + 1
    /\ \E r \in PgRowSet :
          /\ pg_row' = r
          /\ pg_row_num' = pg_row_num + 1
          /\ IF TooFewCells(r)
             THEN /\ PgSkip
                  /\ UNCHANGED <<pg_staging, pg_videos, pg_uncommitted, pg_tx>>
             ELSE IF ~Essential(Cell(r, 1), Cell(r, 0), extract_video_id_pg(Cell(r, 0)))
             THEN /\ PgSkip
                  /\ UNCHANGED <<pg_staging, pg_videos, pg_uncommitted, pg_tx>>
             ELSE IF parse_views_pg(Cell(r, 7)).raised
             THEN /\ PgSkip
                  /\ UNCHANGED <<pg_staging, pg_videos, pg_uncommitted, pg_tx>>
             ELSE \E inserted \in (IF pg_tx = "ok" THEN BOOLEAN ELSE {FALSE}) :
                     IF ~inserted
                     THEN /\ PgSkip
                          /\ PgStatementFails
                          /\ pg_tx' = "aborted"
                     ELSE LET staging1 == Append(pg_staging,
                                  StagingTuple(r, pg_file, pg_row_num + 1))
                              videos1 == Append(pg_videos,
                                  VideosTuple(r, pg_file, pg_row_num + 1))
                          IN  /\ pg_imported' = pg_imported + 1
                              /\ pg_tx' = "ok"
                              /\ IF (pg_imported + 1) % commit_every = 0
                                 THEN \E committed \in BOOLEAN :
                                         IF committed
                                         THEN /\ pg_staging' = staging1
                                              /\ pg_videos' = videos1
                                              /\ pg_uncommitted' = 0
                                              /\ UNCHANGED pg_skipped
                                         ELSE /\ pg_staging' = DropLast(staging1, pg_uncommitted + 1)
                                              /\ pg_videos' = DropLast(videos1, pg_uncommitted + 1)
                                              /\ pg_uncommitted' = 0
                                              /\ pg_skipped' = pg_skipped + 1
                                 ELSE /\ pg_staging' = staging1
                                      /\ pg_videos' = videos1
                                      /\ pg_uncommitted' = pg_uncommitted + 1
                                      /\ UNCHANGED pg_skipped
    /\ UNCHANGED <<pg_pc, pg_file, pg_total_imported, pg_total_skipped>>

\* lines 119 and 182-186: the reader is exhausted, or it raises while it is
\* iterated and the except of line 182 prints the error; either way
\* import_csv_file closes the cursor and returns the counts reached so far
PgEndOfFile ==
    /\ pg_pc = "rows"
    /\ PgReturn(pg_imported, pg_skipped)
    /\ UNCHANGED <<pg_row_num, pg_row, pg_imported, pg_skipped, pg_staging,
                   pg_videos, pg_rows_read>>

\* lines 228-248: the loop over csv_files is over
PgSummary ==
    /\ pg_pc = "file"
    /\ pg_file > Len(csv_files)
    /\ pg_pc' = "done"
    /\ UNCHANGED <<pg_file, pg_row_num, pg_row, pg_imported, pg_skipped,
                   pg_staging, pg_videos, pg_uncommitted, pg_tx,
                   pg_total_imported, pg_total_skipped, pg_rows_read>>

PgNext ==
    \/ get_db_connection /\ UNCHANGED <<pvars, lvars, fvars>>
    \/ create_table_if_not_exists /\ UNCHANGED <<pvars, lvars, fvars>>
    \/ PgImportStart /\ UNCHANGED <<pvars, lvars, fvars>>
    \/ PgReadRow /\ UNCHANGED <<pvars, lvars, fvars>>
    \/ PgEndOfFile /\ UNCHANGED <<pvars, lvars, fvars>>
    \/ PgSummary /\ UNCHANGED <<pvars, lvars, fvars>>

GInit ==
    PgInit /\ PartOff /\ LoadIdle /\ FuncOff

PgSpec ==
    GInit /\ [][PgNext]_vars
\* the row has the cells the loader reads, its title and source URL are
\* non-empty and one of its thumbnails is
PgPassesGate(r) ==
    /\ Len(r) >= 13
    /\ NonBlank(r[2])
    /\ NonBlank(r[1])
    /\ NonBlank(r[13]) \/ NonBlank(r[4])

\* C21 as stated: the per-row loader inserts a row into videos only when its
\* title, its source URL and its resolved thumbnail are non-empty, and of a
\* row failing this nothing is in any table.
C21_Original ==
    /\ \A v \in SeqRange(pg_videos) :
           v.title # <<>> /\ v.source_url # <<>> /\ v.thumbnail_url # <<>>
    /\ (pg_pc = "rows" /\ pg_row_num > 0 /\ ~PgPassesGate(pg_row)) =>
           \A e \in SeqRange(pg_staging) \cup SeqRange(pg_videos) :
               e.src # <<pg_file, pg_row_num>>

====
